---- MODULE Spec2Model ----
(***************************************************************************)
(* Model of SpreadsheetFileV2.execute                                      *)
(* (packages/nodes-base/nodes/SpreadsheetFile/v2/SpreadsheetFileV2.node.ts)*)
(*                                                                         *)
(* Encoding of JavaScript values.                                          *)
(*  - A row is a record [t, cells, entries]: t = "arr" is a JS array whose *)
(*    elements are `cells`; t = "obj" is a JS object whose own enumerable  *)
(*    properties, in insertion order, are `entries` (pairs <<key, value>>);*)
(*    t = "msg" is a string given by its fragments in `cells`.             *)
(*  - An optional option (a number or boolean that may be undefined) is a  *)
(*    set with at most one element: {} is undefined.                       *)
(*  - A string option that is tested for truthiness uses "" for both the   *)
(*    empty string and undefined.                                          *)
(*  - An output item is [json |-> [field, value], binary, pairedItem]:     *)
(*    field = "" means json is `value` itself, otherwise json is the       *)
(*    object { [field]: value }.  pairedItem is [single, items]: single    *)
(*    is TRUE for { item: i } and FALSE for an array of { item: k }.       *)
(*                                                                         *)
(* What the libraries are given and the model does not look into.          *)
(*  - delimiter and enableBOM only decide how csv-parse splits the bytes   *)
(*    into lines and fields: a CSV payload is given as its lines of        *)
(*    fields.  fromLine, maxRowCount, headerRow and includeEmptyCells are  *)
(*    modelled.                                                            *)
(*  - rawData and readAsString only decide how xlsx reads cell values: a   *)
(*    workbook is given as its sheets of cell texts.  sheetName, range,    *)
(*    headerRow and includeEmptyCells are modelled.                        *)
(*  - The stream of a stored payload hands the parser one line at a time.  *)
(*                                                                         *)
(* pc is the place execute is at: "run" (in the loop or before the toFile  *)
(* branch), "open" (awaiting getBinaryStream), "await" (awaiting the       *)
(* promise of the stream branch), "serialize" (awaiting                    *)
(* convertJsonToSpreadsheetBinary), "done" (returned), "aborted" (threw),  *)
(* "hung" (the awaited promise can no longer be settled).                  *)
(* unhandled holds the indices of the items on whose parser or stream an   *)
(* 'error' event was emitted with no listener.                             *)
(* extracted and route record, per item, the rows handed to the mapping    *)
(* loops and the extractor chosen.                                         *)
(***************************************************************************)
EXTENDS Integers, Sequences, FiniteSets, TLC

\* operation, items, binaryPropertyName  the node's parameters and input (l. 50-60)
\* continueOnFail   this.continueOnFail() (l. 193, 235)
\* i, newItems, rows   the loop index, the output list, the rows of item i
\* parser, fed      the CSV parser of item i and the lines its stream has handed over
\* thrown           the error execute threw (l. 204, 243)
\* pc, unhandled, extracted, route   see above
VARIABLES operation, continueOnFail, items, binaryPropertyName,
          i, pc, newItems, rows, parser, fed, thrown, unhandled, extracted, route

vars == <<operation, continueOnFail, items, binaryPropertyName,
          i, pc, newItems, rows, parser, fed, thrown, unhandled, extracted, route>>

\* ------------------------------------------------------------------ bounds
MaxItems == 3
MaxDataLines == 2
MaxRowCountMax == 2

\* ------------------------------------------------------------ JS values
Arr(c) == [t |-> "arr", cells |-> c, entries |-> <<>>]
Obj(e) == [t |-> "obj", cells |-> <<>>, entries |-> e]
Msg(f) == [t |-> "msg", cells |-> f, entries |-> <<>>]

\* the property name of array index k (0-based), as Object.entries gives it
IndexKey(k) == ToString(k)

\* Object.entries(record): for an array the pairs <<index, element>>
Entries(r) ==
  IF r.t = "arr" THEN [k \in 1..Len(r.cells) |-> <<IndexKey(k - 1), r.cells[k]>>]
  ELSE r.entries

RECURSIVE FilterNonEmpty(_)
\* .filter(([_key, value]) => value !== '')
FilterNonEmpty(es) ==
  IF es = <<>> THEN <<>>
  ELSE IF Head(es)[2] # "" THEN <<Head(es)>> \o FilterNonEmpty(Tail(es))
  ELSE FilterNonEmpty(Tail(es))

\* Object.fromEntries(entries): always a plain object
FromEntries(es) == Obj(es)

\* the onRecord callback: the record that is pushed on `rows`
OnRecord(record, includeEmptyCells) ==
  IF ~includeEmptyCells
  THEN FromEntries(FilterNonEmpty(Entries(record)))
  ELSE record

\* ------------------------------------------------------------ options
\* Truthiness of an optional boolean: undefined ({}) is falsy
Truthy(o) == o = {TRUE}

\* to: maxRowCount > -1 ? maxRowCount : undefined   (undefined > -1 is false)
ToOption(maxRowCount) == {n \in maxRowCount : n > -1}

\* columns: options.headerRow !== false
ColumnsOption(headerRow) == headerRow # {FALSE}

\* ------------------------------------------------ csv-parse, as it is called
\* The payload of a CSV item is the sequence of its lines, each line the
\* sequence of its fields under the item's delimiter and BOM options.
\*
\* csv-parse rejects `to` values that are not positive when the parser is made
ParserOptionError(opt) == \E n \in ToOption(opt.maxRowCount) : n <= 0

ParserOptionMessage(opt) ==
  Msg(<<"Invalid Option: to must be a positive integer greater than 0, got ",
        ToString(CHOOSE n \in ToOption(opt.maxRowCount) : TRUE)>>)

\* the parser right after createCSVParser(...)
NewParser == [hdr |-> FALSE, cols |-> <<>>, width |-> 0, records |-> 0,
              status |-> "run", msg |-> Msg(<<>>)]

RECURSIVE SetProp(_, _, _)
\* obj[key] = value on an object given by its entries
SetProp(es, key, value) ==
  IF es = <<>> THEN << <<key, value>> >>
  ELSE IF Head(es)[1] = key THEN << <<key, value>> >> \o Tail(es)
  ELSE <<Head(es)>> \o SetProp(Tail(es), key, value)

RECURSIVE KeyedEntries(_, _, _)
KeyedEntries(cols, line, acc) ==
  IF cols = <<>> THEN acc
  ELSE KeyedEntries(Tail(cols), Tail(line), SetProp(acc, Head(cols), Head(line)))

\* the record csv-parse builds from a line: an object keyed by the column
\* names when `columns` is on, the array of fields otherwise
MakeRecord(cols, line, columns) ==
  IF columns THEN Obj(KeyedEntries(cols, line, <<>>)) ELSE Arr(line)

LengthMessage(p, line, lineNo, columns) ==
  IF columns
  THEN Msg(<<"Invalid Record Length: columns length is ", ToString(p.width),
             ", got ", ToString(Len(line)), " on line ", ToString(lineNo)>>)
  ELSE Msg(<<"Invalid Record Length: expect ", ToString(p.width),
             ", got ", ToString(Len(line)), " on line ", ToString(lineNo)>>)

\* Feed that stops one record late
FeedStopsLate(st, line, lineNo, opt) ==
  LET p == st.p
      columns == ColumnsOption(opt.headerRow)
      to == ToOption(opt.maxRowCount)
  IN
  IF p.status # "run" THEN st
  ELSE IF lineNo < opt.fromLine THEN st
  ELSE IF columns /\ ~p.hdr
    THEN [st EXCEPT !.p.hdr = TRUE, !.p.cols = line, !.p.width = Len(line)]
  ELSE IF p.width # 0 /\ Len(line) # p.width
    THEN [st EXCEPT !.p.status = "error",
                    !.p.msg = LengthMessage(p, line, lineNo, columns)]
  ELSE
    LET n == p.records + 1
        stop == \E t \in to : n > t
    IN [p |-> [p EXCEPT !.width = Len(line), !.records = n,
                        !.status = IF stop THEN "stopped" ELSE "run"],
        rows |-> Append(st.rows,
                        OnRecord(MakeRecord(p.cols, line, columns),
                                 Truthy(opt.includeEmptyCells)))]

\* One line through the parser.  st = [p |-> parser state, rows |-> rows so far]
Feed(st, line, lineNo, opt) ==
  LET p == st.p
      columns == ColumnsOption(opt.headerRow)
      to == ToOption(opt.maxRowCount)
  IN
  IF p.status # "run" THEN st
  ELSE IF lineNo < opt.fromLine THEN st
  ELSE IF columns /\ ~p.hdr
    THEN [st EXCEPT !.p.hdr = TRUE, !.p.cols = line, !.p.width = Len(line)]
  ELSE IF p.width # 0 /\ Len(line) # p.width
    THEN [st EXCEPT !.p.status = "error",
                    !.p.msg = LengthMessage(p, line, lineNo, columns)]
  ELSE
    LET n == p.records + 1
        stop == \E t \in to : n >= t
    IN [p |-> [p EXCEPT !.width = Len(line), !.records = n,
                        !.status = IF stop THEN "stopped" ELSE "run"],
        rows |-> Append(st.rows,
                        OnRecord(MakeRecord(p.cols, line, columns),
                                 Truthy(opt.includeEmptyCells)))]

\* parser.end(): the input is over
EndParser(st) ==
  IF st.p.status = "run" THEN [st EXCEPT !.p.status = "ended"] ELSE st

RECURSIVE FeedAll(_, _, _, _)
FeedAll(st, lines, k, opt) ==
  IF k > Len(lines) THEN st
  ELSE FeedAll(Feed(st, lines[k], k, opt), lines, k + 1, opt)

\* parser.write(binaryData.data, BINARY_ENCODING); parser.end();
\* both run the parser synchronously over the whole buffer
ParseBuffer(lines, opt) ==
  EndParser(FeedAll([p |-> NewParser, rows |-> <<>>], lines, 1, opt))

\* ------------------------------------------------------ xlsx, as it is called
\* A workbook is [SheetNames |-> sequence of names, Sheets |-> name -> grid];
\* a grid is the sequence of the sheet's rows, each a sequence of cell texts
\* of the same width, "" for a cell that holds nothing.

\* isNaN(options.range) and parseInt(options.range, 10) on the strings used
IsNaN(s) == ~ \E n \in 0..9 : ToString(n) = s
ParseInt(s) == CHOOSE n \in 0..9 : ToString(n) = s

\* A1-style ranges used as inputs, as 1-based [first, last] rows of the grid
A1Rows(s) == IF s = "A2:B3" THEN <<2, 3>> ELSE <<1, 1>>
\* and the number of their columns
A1Width(s) == IF s = "A2:B3" THEN 2 ELSE 1

\* the Sheet2JSONOpts built from the node's options
SheetToJsonOptions(opt) ==
  [range  |-> IF opt.range # ""
              THEN IF IsNaN(opt.range) THEN [num |-> FALSE, n |-> 0, a1 |-> opt.range]
                   ELSE [num |-> TRUE, n |-> ParseInt(opt.range), a1 |-> ""]
              ELSE [num |-> FALSE, n |-> 0, a1 |-> ""],
   defval |-> Truthy(opt.includeEmptyCells),
   header |-> IF opt.headerRow = {FALSE} THEN 1 ELSE 0]

\* row r of the grid, over w columns; a row or a cell the sheet does not
\* have holds nothing
GridRow(grid, r, w) ==
  [c \in 1..w |-> IF r <= Len(grid) /\ c <= Len(grid[r]) THEN grid[r][c] ELSE ""]

\* the rows that sheet_to_json goes through: those of the sheet from row n on
\* for a numeric range, every row of an explicit range (also the rows past
\* the end of the sheet, which are blank), the whole sheet otherwise
RangeRows(grid, range) ==
  IF range.num THEN SubSeq(grid, range.n + 1, Len(grid))
  ELSE IF range.a1 # ""
    THEN [k \in 1..(A1Rows(range.a1)[2] - A1Rows(range.a1)[1] + 1) |->
            GridRow(grid, A1Rows(range.a1)[1] + k - 1, A1Width(range.a1))]
  ELSE grid

\* an array element that was never assigned
Hole == "<empty item>"

RECURSIVE TrimHoles(_)
TrimHoles(c) ==
  IF c # <<>> /\ c[Len(c)] = Hole THEN TrimHoles(SubSeq(c, 1, Len(c) - 1)) ELSE c

\* header: 1 - every row is an array; a cell that holds nothing is defval
\* when defval is set and is left unassigned otherwise
ArrayRow(cells, defval) ==
  IF defval THEN Arr(cells)
  ELSE Arr(TrimHoles([k \in 1..Len(cells) |-> IF cells[k] = "" THEN Hole ELSE cells[k]]))

\* the column names taken from the first row of the range
\* (an unnamed column is __EMPTY, the next ones __EMPTY_1, __EMPTY_2; the
\* named columns of the grids used here are distinct)
EmptyNames == <<"__EMPTY", "__EMPTY_1", "__EMPTY_2", "__EMPTY_3">>

HeaderName(hdrRow, k) ==
  IF hdrRow[k] # "" THEN hdrRow[k]
  ELSE EmptyNames[1 + Cardinality({j \in 1..(k - 1) : hdrRow[j] = ""})]

RECURSIVE ObjectEntries(_, _, _, _)
ObjectEntries(hdrRow, cells, k, defval) ==
  IF k > Len(cells) THEN <<>>
  ELSE (IF cells[k] = "" /\ ~defval THEN <<>>
        ELSE << <<HeaderName(hdrRow, k), cells[k]>> >>)
       \o ObjectEntries(hdrRow, cells, k + 1, defval)

IsBlankRow(cells) == \A k \in 1..Len(cells) : cells[k] = ""

RECURSIVE ObjectRows(_, _, _, _)
\* default header: the first row names the columns, blank rows are skipped
ObjectRows(hdrRow, data, k, defval) ==
  IF k > Len(data) THEN <<>>
  ELSE (IF IsBlankRow(data[k]) THEN <<>>
        ELSE <<Obj(ObjectEntries(hdrRow, data[k], 1, defval))>>)
       \o ObjectRows(hdrRow, data, k + 1, defval)

\* xlsxUtils.sheet_to_json(sheet, sheetToJsonOptions)
SheetToJson(grid, o) ==
  LET g == RangeRows(grid, o.range)
  IN IF o.header = 1 THEN [k \in 1..Len(g) |-> ArrayRow(g[k], o.defval)]
     ELSE IF g = <<>> THEN <<>>
     ELSE ObjectRows(Head(g), Tail(g), 1, o.defval)

\* --------------------------------------------------------- execute, helpers
\* FileFormat without the text/plain + csv extension case
FileFormatMimeOnly(fileFormat, mimeType, fileExtension) ==
  IF fileFormat = "autodetect" /\ mimeType = "text/csv" THEN "csv" ELSE fileFormat

\* the fileFormat that the branch at `if (fileFormat === 'csv')` sees
FileFormat(fileFormat, mimeType, fileExtension) ==
  IF fileFormat = "autodetect"
     /\ (mimeType = "text/csv"
         \/ (mimeType = "text/plain" /\ fileExtension = "csv"))
  THEN "csv"
  ELSE fileFormat

IsCsv(item) == FileFormat(item.fileFormat, item.mimeType, item.fileExtension) = "csv"

NoBinary == [name |-> "", data |-> ""]
PairedSingle(idx) == [single |-> TRUE, items |-> <<idx>>]

\* the outcome of one item's try block
Rows(r) == [kind |-> "rows", rows |-> r, msg |-> Msg(<<>>), unhandled |-> FALSE]
Skip == [kind |-> "skip", rows |-> <<>>, msg |-> Msg(<<>>), unhandled |-> FALSE]
Fail(m) == [kind |-> "fail", rows |-> <<>>, msg |-> m, unhandled |-> FALSE]

\* this.helpers.assertBinaryData(i, binaryPropertyName) when the item has no
\* such binary property
NoBinaryMessage(name, idx) ==
  Msg(<<"This operation expects the node's input data to contain a binary file '",
        name, "', but none was found [item ", ToString(idx), "]">>)

EmptyWorkbookMessage == Msg(<<"Spreadsheet does not have any sheets!">>)
SheetNotFoundMessage(name) ==
  Msg(<<"Spreadsheet does not contain sheet called \"", name, "\"!">>)

InSeq(x, sq) == \E k \in 1..Len(sq) : sq[k] = x

\* SelectSheet with the sheetName check made before the empty-workbook check
SelectSheetNameFirst(SheetNames, sheetName) ==
  IF sheetName # "" /\ ~InSeq(sheetName, SheetNames)
  THEN [ok |-> FALSE, name |-> "", msg |-> SheetNotFoundMessage(sheetName)]
  ELSE IF Len(SheetNames) = 0
  THEN [ok |-> FALSE, name |-> "", msg |-> EmptyWorkbookMessage]
  ELSE [ok |-> TRUE, name |-> IF sheetName # "" THEN sheetName ELSE SheetNames[1],
        msg |-> Msg(<<>>)]

\* the checks on workbook.SheetNames and options.sheetName:
\* [ok |-> TRUE, name |-> selected sheet] or [ok |-> FALSE, msg |-> failure]
SelectSheet(SheetNames, sheetName) ==
  IF Len(SheetNames) = 0
  THEN [ok |-> FALSE, name |-> "", msg |-> EmptyWorkbookMessage]
  ELSE IF sheetName # ""
    THEN IF ~InSeq(sheetName, SheetNames)
         THEN [ok |-> FALSE, name |-> "", msg |-> SheetNotFoundMessage(sheetName)]
         ELSE [ok |-> TRUE, name |-> sheetName, msg |-> Msg(<<>>)]
  ELSE [ok |-> TRUE, name |-> SheetNames[1], msg |-> Msg(<<>>)]

\* SpreadsheetOutcome that reports a sheet without rows as a failure
SpreadsheetOutcomeNoSkip(item) ==
  IF item.loadFails THEN Fail(item.loadError)
  ELSE
    LET sel == SelectSheet(item.workbook.SheetNames, item.options.sheetName)
    IN IF ~sel.ok THEN Fail(sel.msg)
       ELSE LET r == SheetToJson(item.workbook.Sheets[sel.name],
                                 SheetToJsonOptions(item.options))
            IN IF Len(r) = 0 THEN Fail(Msg(<<"Spreadsheet does not have any data!">>))
               ELSE Rows(r)

\* the else branch of `if (fileFormat === 'csv')`
SpreadsheetOutcome(item) ==
  IF item.loadFails THEN Fail(item.loadError)
  ELSE
    LET sel == SelectSheet(item.workbook.SheetNames, item.options.sheetName)
    IN IF ~sel.ok THEN Fail(sel.msg)
       ELSE LET r == SheetToJson(item.workbook.Sheets[sel.name],
                                 SheetToJsonOptions(item.options))
            IN IF Len(r) = 0 THEN Skip ELSE Rows(r)

\* the CSV branch for an in-memory payload: no 'error' listener is attached,
\* so a parser error is emitted with nobody listening and the rows delivered
\* before it stay in `rows`
CsvBufferOutcome(item) ==
  IF ParserOptionError(item.options) THEN Fail(ParserOptionMessage(item.options))
  ELSE LET st == ParseBuffer(item.lines, item.options)
       IN [Rows(st.rows) EXCEPT !.unhandled = (st.p.status = "error")]

\* the try block of an item that does not await a stream
SyncOutcome(item, name, idx) ==
  IF ~item.hasBinary THEN Fail(NoBinaryMessage(name, idx))
  ELSE IF IsCsv(item) THEN CsvBufferOutcome(item)
  ELSE SpreadsheetOutcome(item)

\* RowItem that never wraps the row under `row`
RowItemNoWrap(rowData, headerRow, idx) ==
  [json |-> [field |-> "", value |-> rowData],
   binary |-> NoBinary,
   pairedItem |-> PairedSingle(idx)]

RowItem(rowData, headerRow, idx) ==
  [json |-> [field |-> IF headerRow = {FALSE} THEN "row" ELSE "", value |-> rowData],
   binary |-> NoBinary,
   pairedItem |-> PairedSingle(idx)]

\* the two loops over `rows` that push on newItems
MapRows(r, headerRow, idx) == [k \in 1..Len(r) |-> RowItem(r[k], headerRow, idx)]

\* the item pushed by a catch block under continueOnFail
ErrorItem(msg, paired) ==
  [json |-> [field |-> "error", value |-> msg], binary |-> NoBinary, pairedItem |-> paired]

\* generatePairedItemData(length): [{ item: 0 }, ..., { item: length - 1 }]
GeneratePairedItemData(length) ==
  [single |-> FALSE, items |-> [k \in 1..length |-> k - 1]]

\* the item pushed by the toFile branch on success
BinaryItem(name, data, paired) ==
  [json |-> [field |-> "", value |-> Obj(<<>>)],
   binary |-> [name |-> name, data |-> data],
   pairedItem |-> paired]

NoError == [set |-> FALSE, message |-> Msg(<<>>), itemIndex |-> -1]

\* the catch block of the fromFile loop: what is pushed, and what is thrown
OnCatch(cont, msg, idx) ==
  IF cont
  THEN [push |-> <<ErrorItem(msg, PairedSingle(idx))>>, thrown |-> NoError]
  ELSE [push |-> <<>>, thrown |-> [set |-> TRUE, message |-> msg, itemIndex |-> idx]]

\* OnCatchToFile that tags the error record like the fromFile catch block
OnCatchToFileSingle(cont, msg, paired) ==
  IF cont
  THEN [push |-> <<ErrorItem(msg, PairedSingle(0))>>, thrown |-> NoError]
  ELSE [push |-> <<>>, thrown |-> [set |-> TRUE, message |-> msg, itemIndex |-> -1]]

\* the catch block of the toFile branch: `throw error` carries no item index
OnCatchToFile(cont, msg, paired) ==
  IF cont
  THEN [push |-> <<ErrorItem(msg, paired)>>, thrown |-> NoError]
  ELSE [push |-> <<>>, thrown |-> [set |-> TRUE, message |-> msg, itemIndex |-> -1]]

\* convertJsonToSpreadsheetBinary(items, fileFormat, options): the payload
ConvertJsonToSpreadsheetBinary(batch) == "spreadsheet"
SerializerMessage == Msg(<<"serializer failed">>)

\* ------------------------------------------------------------------ state
Item == items[i + 1]

\* the extractor an item with a binary payload is handed to
Route(item) ==
  IF ~item.hasBinary THEN "" ELSE IF IsCsv(item) THEN "csv" ELSE "spreadsheet"

\* the end of one iteration of the fromFile loop with outcome o
Settle(o) ==
  /\ route' = [route EXCEPT ![i + 1] = Route(Item)]
  /\ unhandled' = IF o.unhandled THEN unhandled \cup {i} ELSE unhandled
  /\ rows' = <<>>
  /\ parser' = NewParser
  /\ fed' = 0
  /\ IF o.kind = "fail"
     THEN LET c == OnCatch(continueOnFail, o.msg, i)
          IN /\ newItems' = newItems \o c.push
             /\ thrown' = c.thrown
             /\ IF c.thrown.set
                THEN pc' = "aborted" /\ i' = i
                ELSE pc' = "run" /\ i' = i + 1
             /\ UNCHANGED extracted
     ELSE /\ newItems' = newItems \o MapRows(o.rows, Item.options.headerRow, i)
          /\ extracted' = [extracted EXCEPT ![i + 1] = o.rows]
          /\ pc' = "run"
          /\ i' = i + 1
          /\ UNCHANGED thrown
  /\ UNCHANGED <<operation, continueOnFail, items, binaryPropertyName>>

InLoop == pc = "run" /\ operation = "fromFile" /\ i < Len(items)

Streams(item) == item.hasBinary /\ IsCsv(item) /\ item.id

\* one iteration of the loop that never awaits: a missing binary, a CSV
\* buffer, or a spreadsheet
ReadItemSync ==
  /\ InLoop
  /\ ~Streams(Item)
  /\ Settle(SyncOutcome(Item, binaryPropertyName, i))

\* a CSV item held by the binary-data store, up to the first await: make
\* the parser (which may reject its options) and call getBinaryStream
StreamStart ==
  /\ InLoop
  /\ Streams(Item)
  /\ IF ParserOptionError(Item.options)
     THEN Settle(Fail(ParserOptionMessage(Item.options)))
     ELSE /\ pc' = "open"
          /\ parser' = NewParser
          /\ rows' = <<>>
          /\ fed' = 0
          /\ route' = [route EXCEPT ![i + 1] = Route(Item)]
          /\ UNCHANGED <<operation, continueOnFail, items, binaryPropertyName,
                         i, newItems, thrown, unhandled, extracted>>

\* getBinaryStream resolves: attach the listeners, pipe the stream into the
\* parser and await the promise
StreamPipe ==
  /\ pc = "open"
  /\ ~Item.openFails
  /\ pc' = "await"
  /\ UNCHANGED <<operation, continueOnFail, items, binaryPropertyName, i, newItems,
                 rows, parser, fed, thrown, unhandled, extracted, route>>

\* getBinaryStream rejects: the await throws into the catch block
StreamOpenFails ==
  /\ pc = "open"
  /\ Item.openFails
  /\ Settle(Fail(Item.openError))

Awaiting == pc = "await" /\ parser.status = "run"

\* the stream hands the next chunk (one line) to the parser
StreamChunk ==
  /\ Awaiting
  /\ fed < Len(Item.lines)
  /\ Item.streamErrorAt # fed + 1
  /\ LET st == Feed([p |-> parser, rows |-> rows], Item.lines[fed + 1],
                    fed + 1, Item.options)
     IN parser' = st.p /\ rows' = st.rows
  /\ fed' = fed + 1
  /\ UNCHANGED <<operation, continueOnFail, items, binaryPropertyName,
                 i, pc, newItems, thrown, unhandled, extracted, route>>

\* the stream ends: pipe() ends the parser
StreamEnd ==
  /\ Awaiting
  /\ fed = Len(Item.lines)
  /\ Item.streamErrorAt # fed + 1
  /\ parser' = EndParser([p |-> parser, rows |-> rows]).p
  /\ UNCHANGED <<operation, continueOnFail, items, binaryPropertyName,
                 i, pc, newItems, rows, fed, thrown, unhandled, extracted, route>>

\* the stream emits 'error': pipe() does not forward it, nobody listens to
\* it, the parser is never ended and the promise is never settled
StreamError ==
  /\ Awaiting
  /\ Item.streamErrorAt = fed + 1
  /\ unhandled' = unhandled \cup {i}
  /\ pc' = "hung"
  /\ UNCHANGED <<operation, continueOnFail, items, binaryPropertyName,
                 i, newItems, rows, parser, fed, thrown, extracted, route>>

\* parser.on('readable'): the readable side got its end (nothing else is
\* ever pushed on it, onRecord returns undefined): unpipe, destroy, resolve
ParserReadable ==
  /\ pc = "await"
  /\ parser.status \in {"stopped", "ended"}
  /\ Settle(Rows(rows))

\* parser.on('error', reject)
ParserError ==
  /\ pc = "await"
  /\ parser.status = "error"
  /\ Settle(Fail(parser.msg))

\* return [newItems] after the loop
ReturnFromFile ==
  /\ pc = "run"
  /\ operation = "fromFile"
  /\ i = Len(items)
  /\ pc' = "done"
  /\ UNCHANGED <<operation, continueOnFail, items, binaryPropertyName,
                 i, newItems, rows, parser, fed, thrown, unhandled, extracted, route>>

\* the toFile branch up to its await: pairedItem, the parameters and the
\* call of convertJsonToSpreadsheetBinary
ToFileStart ==
  /\ pc = "run"
  /\ operation = "toFile"
  /\ pc' = "serialize"
  /\ UNCHANGED <<operation, continueOnFail, items, binaryPropertyName, i, newItems,
                 rows, parser, fed, thrown, unhandled, extracted, route>>

\* the serializer resolves or rejects: the rest of the toFile branch
ToFile ==
  /\ pc = "serialize"
  /\ operation = "toFile"
  /\ LET pairedItem == GeneratePairedItemData(Len(items))
     IN \E ok \in BOOLEAN :
          IF ok
          THEN /\ newItems' = Append(newItems,
                     BinaryItem(binaryPropertyName,
                                ConvertJsonToSpreadsheetBinary(items), pairedItem))
               /\ pc' = "done"
               /\ UNCHANGED thrown
          ELSE LET c == OnCatchToFile(continueOnFail, SerializerMessage, pairedItem)
               IN /\ newItems' = newItems \o c.push
                  /\ thrown' = c.thrown
                  /\ pc' = IF c.thrown.set THEN "aborted" ELSE "done"
  /\ UNCHANGED <<operation, continueOnFail, items, binaryPropertyName,
                 i, rows, parser, fed, unhandled, extracted, route>>

Next ==
  \/ ReadItemSync
  \/ StreamStart
  \/ StreamPipe
  \/ StreamOpenFails
  \/ StreamChunk
  \/ StreamEnd
  \/ StreamError
  \/ ParserReadable
  \/ ParserError
  \/ ReturnFromFile
  \/ ToFileStart
  \/ ToFile

\* ------------------------------------------------------------------ inputs
RECURSIVE SeqsUpTo(_, _)
\* the sequences over S of length at most n
SeqsUpTo(S, n) ==
  IF n = 0 THEN {<<>>}
  ELSE LET shorter == SeqsUpTo(S, n - 1)
       IN shorter \cup {Append(q, x) : q \in {r \in shorter : Len(r) = n - 1}, x \in S}

OptBool == {{}, {TRUE}, {FALSE}}

DefaultOptions ==
  [maxRowCount |-> {}, includeEmptyCells |-> {}, headerRow |-> {}, fromLine |-> 1,
   sheetName |-> "", range |-> ""]

\* CSV payloads: a first line and up to MaxDataLines more; <<"c">> has the
\* wrong number of fields
FirstLine == <<"x", "y">>
DataLines == {<<"a", "b">>, <<"a", "">>, <<"", "">>, <<"c">>}
CsvFiles == {<<>>} \cup {<<FirstLine>> \o d : d \in SeqsUpTo(DataLines, MaxDataLines)}
File1 == <<FirstLine, <<"a", "">>, <<"a", "b">> >>
BadFile == <<FirstLine, <<"a", "b">>, <<"c">> >>

\* workbooks
Grid1 == << <<"h1", "h2">>, <<"a", "b">>, <<"c", "">> >>
Grid2 == << <<"k1", "k2">>, <<"d", "e">> >>
HeaderOnly == << <<"h1", "h2">> >>
NoSheets == [SheetNames |-> <<>>, Sheets |-> <<>>]
OneSheet == [SheetNames |-> <<"S1">>, Sheets |-> [n \in {"S1"} |-> Grid1]]
TwoSheets == [SheetNames |-> <<"S1", "S2">>,
              Sheets |-> [n \in {"S1", "S2"} |-> IF n = "S1" THEN Grid1 ELSE Grid2]]
EmptyFirst == [SheetNames |-> <<"S1", "S2">>,
               Sheets |-> [n \in {"S1", "S2"} |-> IF n = "S1" THEN HeaderOnly ELSE Grid2]]
Workbooks == {NoSheets, OneSheet, TwoSheets, EmptyFirst}
LoadError == Msg(<<"Unsupported file">>)
\* the rejection of getBinaryStream for a payload the store cannot open
OpenError == Msg(<<"ENOENT: binary file not found">>)

DefaultItem ==
  [hasBinary |-> TRUE, fileFormat |-> "autodetect", mimeType |-> "text/csv",
   fileExtension |-> "csv", id |-> FALSE, lines |-> File1, openFails |-> FALSE,
   openError |-> OpenError, streamErrorAt |-> 0,
   loadFails |-> FALSE, loadError |-> LoadError, workbook |-> OneSheet,
   options |-> DefaultOptions]

XlsxItem == [DefaultItem EXCEPT !.fileFormat = "xlsx",
                                !.mimeType = "application/vnd.ms-excel",
                                !.fileExtension = "xlsx"]

\* every combination of format hint, MIME type and extension
DetectItems ==
  {[DefaultItem EXCEPT !.fileFormat = f, !.mimeType = m, !.fileExtension = e, !.id = d] :
     f \in {"autodetect", "csv", "xlsx", "{}"},
     m \in {"text/csv", "text/plain", "application/vnd.ms-excel"},
     e \in {"csv", "txt", ""},
     d \in BOOLEAN}

MaxRowCounts == {{}} \cup {{n} : n \in -1..MaxRowCountMax}

\* CSV items over every payload and option
CsvItems ==
  {[DefaultItem EXCEPT !.fileFormat = "csv", !.lines = l, !.id = s[1],
                       !.streamErrorAt = s[2], !.openFails = s[3],
                       !.options = [DefaultOptions EXCEPT !.maxRowCount = m,
                                      !.includeEmptyCells = e, !.headerRow = h,
                                      !.fromLine = fl]] :
     l \in CsvFiles, m \in MaxRowCounts, e \in OptBool, h \in OptBool,
     fl \in {1, 2},
     s \in {<<FALSE, 0, FALSE>>, <<TRUE, 0, FALSE>>, <<TRUE, 2, FALSE>>,
            <<TRUE, 0, TRUE>>}}

\* spreadsheet items over every workbook and option
SheetItems ==
  {[XlsxItem EXCEPT !.workbook = w, !.id = d, !.loadFails = lf,
                    !.options = [DefaultOptions EXCEPT !.sheetName = sn, !.range = r,
                                   !.includeEmptyCells = e, !.headerRow = h]] :
     w \in Workbooks, d \in BOOLEAN, lf \in BOOLEAN,
     sn \in {"", "S1", "S2", "S3"}, r \in {"", "1", "A2:B3"},
     e \in OptBool, h \in OptBool}

\* the items that batches of several items are made of
CoreItems ==
  { DefaultItem,
    [DefaultItem EXCEPT !.options.headerRow = {FALSE}],
    [DefaultItem EXCEPT !.lines = BadFile],
    [DefaultItem EXCEPT !.id = TRUE],
    [DefaultItem EXCEPT !.id = TRUE, !.lines = BadFile],
    [DefaultItem EXCEPT !.id = TRUE, !.streamErrorAt = 2],
    [DefaultItem EXCEPT !.id = TRUE, !.openFails = TRUE],
    [DefaultItem EXCEPT !.hasBinary = FALSE],
    XlsxItem,
    [XlsxItem EXCEPT !.workbook = EmptyFirst],
    [XlsxItem EXCEPT !.workbook = TwoSheets, !.options.sheetName = "S3"],
    [XlsxItem EXCEPT !.loadFails = TRUE] }

Batches ==
  SeqsUpTo(CoreItems, MaxItems)
    \cup {<<it>> : it \in DetectItems \cup CsvItems \cup SheetItems}

Init ==
  /\ operation \in {"fromFile", "toFile"}
  /\ continueOnFail \in BOOLEAN
  /\ binaryPropertyName \in {"data"}
  /\ items \in IF operation = "fromFile" THEN Batches
               ELSE SeqsUpTo({DefaultItem}, MaxItems)
  /\ i = 0
  /\ pc = "run"
  /\ newItems = <<>>
  /\ rows = <<>>
  /\ parser = NewParser
  /\ fed = 0
  /\ thrown = NoError
  /\ unhandled = {}
  /\ extracted = [k \in 1..Len(items) |-> <<>>]
  /\ route = [k \in 1..Len(items) |-> ""]

Spec == Init /\ [][Next]_vars

\* ------------------------------------------------------ reading the state
N == Len(items)
Indices == 0..(N - 1)

\* item k went through its loop iteration and the loop moved on
Processed(k) == operation = "fromFile" /\ k < i

\* execute threw while item k was being processed
AbortedAt(k) == operation = "fromFile" /\ pc = "aborted" /\ i = k

OutIdx == 1..Len(newItems)
IsErrorItem(o) == o.json.field = "error"
TaggedIdx(k) == {j \in OutIdx : newItems[j].pairedItem = PairedSingle(k)}
RowIdx(k) == {j \in TaggedIdx(k) : ~IsErrorItem(newItems[j])}
ErrIdx(k) == {j \in TaggedIdx(k) : IsErrorItem(newItems[j])}

\* the messages with which item k is reported to have failed
FailureMsgs(k) ==
  {newItems[j].json.value : j \in ErrIdx(k)}
    \cup (IF AbortedAt(k) /\ thrown.set /\ thrown.itemIndex = k
          THEN {thrown.message} ELSE {})

\* the table of the format detector
ExpectedCsv(it) ==
  \/ it.fileFormat = "csv"
  \/ it.fileFormat = "autodetect" /\ it.mimeType = "text/csv"
  \/ it.fileFormat = "autodetect" /\ it.mimeType = "text/plain" /\ it.fileExtension = "csv"

\* ------------------------------------------------------------------ C10
\* C10: format detection is total and follows the table: every item that has
\* its binary payload is handed to the CSV extractor exactly when the hint is
\* csv, or the hint is autodetect and the MIME type is text/csv or text/plain
\* with extension csv; every other item goes to the spreadsheet extractor;
\* an item is never refused by the detection itself.
C10_FormatDetection ==
  operation = "fromFile" =>
    \A k \in Indices :
      LET it == items[k + 1]
          started == Processed(k) \/ AbortedAt(k) \/ (i = k /\ pc \in {"open", "await", "hung"})
      IN /\ route[k + 1] # "" =>
              route[k + 1] = IF ExpectedCsv(it) THEN "csv" ELSE "spreadsheet"
         /\ (started /\ it.hasBinary) => route[k + 1] # ""
         /\ (started /\ it.hasBinary /\ ~ExpectedCsv(it) /\ ~it.loadFails
               /\ it.workbook = OneSheet /\ it.options = DefaultOptions)
            => (FailureMsgs(k) = {} /\ Processed(k))

C10_Witness ==
  /\ pc = "done" /\ operation = "fromFile" /\ N = 1
  /\ items[1].fileFormat = "autodetect" /\ items[1].mimeType = "text/plain"
  /\ items[1].fileExtension = "csv"
  /\ route[1] = "csv"
  /\ Len(newItems) = 2

\* ------------------------------------------------------------------- C7
\* the sheet the options ask for in a workbook that has it
WantedSheet(it) ==
  IF it.options.sheetName # "" THEN it.options.sheetName
  ELSE it.workbook.SheetNames[1]

\* C7: for an item handed to the spreadsheet extractor whose workbook loads:
\* with zero sheets it fails with the empty-workbook error whatever the other
\* options (also when a sheetName is given); otherwise with a sheetName that
\* is not a sheet of the workbook it fails with the sheet-not-found error,
\* whose message holds the requested name verbatim; otherwise the rows are
\* those of the sheet called sheetName when given, of the first sheet when not.
C7_SheetSelection ==
  \A k \in Indices :
    LET it == items[k + 1]
        names == it.workbook.SheetNames
        sn == it.options.sheetName
    IN ((Processed(k) \/ AbortedAt(k)) /\ route[k + 1] = "spreadsheet" /\ ~it.loadFails)
       => IF Len(names) = 0
          THEN FailureMsgs(k) = {EmptyWorkbookMessage}
          ELSE IF sn # "" /\ ~InSeq(sn, names)
          THEN /\ Cardinality(FailureMsgs(k)) = 1
               /\ \A m \in FailureMsgs(k) :
                     /\ m.cells[1] = "Spreadsheet does not contain sheet called \""
                     /\ m.cells[2] = sn
          ELSE /\ FailureMsgs(k) = {}
               /\ Processed(k)
               /\ extracted[k + 1] =
                    SheetToJson(it.workbook.Sheets[WantedSheet(it)],
                                SheetToJsonOptions(it.options))

C7_Witness ==
  /\ operation = "fromFile" /\ N = 1 /\ AbortedAt(0)
  /\ items[1].workbook = NoSheets /\ items[1].options.sheetName = "S1"
  /\ route[1] = "spreadsheet"
  /\ thrown.message = EmptyWorkbookMessage

\* ------------------------------------------------------------------- C6
\* C6: in the write direction every batch, the empty one included, yields
\* exactly one output item when execute returns: the binary under
\* binaryPropertyName on success, an error record without binary when the
\* serializer fails under continue-on-failure; its pairedItem lists every
\* index 0..N-1 of the batch and is not a single index; without
\* continue-on-failure the failure is thrown and nothing is output.
C6_ToFileSingleItem ==
  operation = "toFile" =>
    /\ pc \in {"run", "serialize", "done", "aborted"}
    /\ pc \in {"run", "serialize"} => newItems = <<>>
    /\ pc = "aborted" => (newItems = <<>> /\ thrown.set /\ ~continueOnFail)
    /\ pc = "done" =>
         /\ Len(newItems) = 1
         /\ ~thrown.set
         /\ ~newItems[1].pairedItem.single
         /\ Len(newItems[1].pairedItem.items) = N
         /\ \A k \in 1..N : newItems[1].pairedItem.items[k] = k - 1
         /\ IF IsErrorItem(newItems[1])
            THEN newItems[1].binary = NoBinary /\ continueOnFail
                 /\ newItems[1].json.value = SerializerMessage
            ELSE newItems[1].binary.name = binaryPropertyName
                 /\ newItems[1].json = [field |-> "", value |-> Obj(<<>>)]

C6_Witness ==
  /\ operation = "toFile" /\ pc = "done" /\ N = 2
  /\ Len(newItems) = 1 /\ IsErrorItem(newItems[1])
  /\ newItems[1].pairedItem.items = <<0, 1>>

\* ------------------------------------------------------------------- C8
\* the item is handed to the spreadsheet extractor and its selected sheet
\* converts to zero rows
EmptySheetItem(it) ==
  /\ it.hasBinary /\ ~ExpectedCsv(it) /\ ~it.loadFails
  /\ Len(it.workbook.SheetNames) > 0
  /\ it.options.sheetName # "" => InSeq(it.options.sheetName, it.workbook.SheetNames)
  /\ SheetToJson(it.workbook.Sheets[WantedSheet(it)], SheetToJsonOptions(it.options)) = <<>>

\* C8: an item whose selected sheet converts to zero rows puts nothing on the
\* output, neither rows nor an error record, raises no failure whatever the
\* continue-on-failure setting, and the loop goes on to the next item.
C8_EmptySheetSkip ==
  operation = "fromFile" =>
    \A k \in Indices :
      EmptySheetItem(items[k + 1]) =>
        /\ TaggedIdx(k) = {}
        /\ ~AbortedAt(k)
        /\ k \notin unhandled
        /\ (i = k => pc = "run")
        /\ Processed(k) => extracted[k + 1] = <<>>

C8_Witness ==
  /\ operation = "fromFile" /\ pc = "done" /\ N = 3 /\ ~continueOnFail
  /\ EmptySheetItem(items[2])
  /\ TaggedIdx(1) = {}
  /\ Cardinality(RowIdx(0)) = 2 /\ Cardinality(RowIdx(2)) = 2
  /\ Len(newItems) = 4

\* ------------------------------------------------------------------- C9
Tag(j) == newItems[j].pairedItem.items[1]

\* the number of output items that come before those of item k
Before(k) == Cardinality({j \in OutIdx : Tag(j) < k})

\* C9: in the read direction every output item carries a single pairedItem
\* index, the indices never decrease along the output, and the rows extracted
\* for a processed item k appear, one item per row and in row order, tagged
\* k, under the single field `row` when headerRow is false and as the
\* record's own fields otherwise; an item that was not processed has no row
\* on the output.
C9_RowMapping ==
  operation = "fromFile" =>
    /\ \A j \in OutIdx :
         /\ newItems[j].pairedItem.single
         /\ Len(newItems[j].pairedItem.items) = 1
         /\ Tag(j) \in Indices
         /\ newItems[j].binary = NoBinary
    /\ \A j1, j2 \in OutIdx : j1 < j2 => Tag(j1) <= Tag(j2)
    /\ \A k \in Indices :
         IF Processed(k)
         THEN /\ Cardinality(RowIdx(k)) = Len(extracted[k + 1])
              /\ \A r \in 1..Len(extracted[k + 1]) :
                   /\ Before(k) + r \in OutIdx
                   /\ newItems[Before(k) + r] =
                        [json |-> [field |-> IF items[k + 1].options.headerRow = {FALSE}
                                             THEN "row" ELSE "",
                                   value |-> extracted[k + 1][r]],
                         binary |-> NoBinary,
                         pairedItem |-> [single |-> TRUE, items |-> <<k>>]]
         ELSE RowIdx(k) = {} /\ extracted[k + 1] = <<>>

C9_Witness ==
  /\ operation = "fromFile" /\ pc = "done" /\ N = 2
  /\ items[1].options.headerRow = {FALSE}
  /\ items[2].options.headerRow = {}
  /\ Len(extracted[1]) = 3 /\ Len(extracted[2]) = 2
  /\ Len(newItems) = 5
  /\ newItems[3].json.field = "row" /\ Tag(3) = 0
  /\ newItems[4].json.field = "" /\ Tag(4) = 1

\* ------------------------------------------------------------------- C4
WellFormed(lines) == \A a, b \in 1..Len(lines) : Len(lines[a]) = Len(lines[b])

\* the data rows of a CSV payload: its lines from fromLine on, less the
\* header line when there is one
DataRowCount(it) ==
  LET left == Len(it.lines) - (it.options.fromLine - 1)
      n == IF it.options.headerRow # {FALSE} THEN left - 1 ELSE left
  IN IF n < 0 THEN 0 ELSE n

\* the store cannot open the stream of a streamed CSV item
OpenFails(it) == it.id /\ it.openFails

Min(a, b) == IF a < b THEN a ELSE b

ExpectedRowCount(it) ==
  LET m == it.options.maxRowCount
  IN IF m = {} \/ m = {-1} THEN DataRowCount(it)
     ELSE Min(DataRowCount(it), CHOOSE n \in m : TRUE)

\* C4: a processed CSV item whose payload is a well-formed CSV of N data rows
\* has exactly min(N, maxRowCount) rows extracted and output when
\* maxRowCount > -1, and all N when maxRowCount is -1 or omitted, for a
\* buffer as for a stream released on the parser's 'readable' event (a
\* payload the store cannot open is no CSV input).
C4_MaxRowCount ==
  \A k \in Indices :
    LET it == items[k + 1]
    IN (Processed(k) /\ route[k + 1] = "csv" /\ WellFormed(it.lines)
        /\ ~OpenFails(it))
       => /\ Len(extracted[k + 1]) = ExpectedRowCount(it)
          /\ Cardinality(RowIdx(k)) = ExpectedRowCount(it)

C4_Witness ==
  /\ operation = "fromFile" /\ pc = "done" /\ N = 1
  /\ items[1].id /\ route[1] = "csv"
  /\ WellFormed(items[1].lines) /\ Len(items[1].lines) = 3
  /\ items[1].options.maxRowCount = {1}
  /\ items[1].options.headerRow = {TRUE} /\ items[1].options.fromLine = 1
  /\ Cardinality(RowIdx(0)) = 1

\* ------------------------------------------------- which items fail, and how
\* the parser as it stands after the first n lines of the payload
ParsedPrefix(it, n) ==
  FeedAll([p |-> NewParser, rows |-> <<>>], SubSeq(it.lines, 1, n), 1, it.options)

\* the underlying stream of a streamed CSV item reports an error while the
\* parser is still reading
StreamFails(it) ==
  /\ it.id
  /\ ~it.openFails
  /\ it.streamErrorAt \in 1..(Len(it.lines) + 1)
  /\ ParsedPrefix(it, it.streamErrorAt - 1).p.status = "run"

\* the parser reports an error on the payload
ParserFails(it) ==
  /\ ~StreamFails(it)
  /\ ~OpenFails(it)
  /\ ParseBuffer(it.lines, it.options).p.status = "error"

ParserMessage(it) == ParseBuffer(it.lines, it.options).p.msg

\* processing of the item fails: no binary payload, a rejected parser
\* option, a parser or stream error, a workbook that does not load, has no
\* sheet or lacks the requested sheet
FailsInput(it) ==
  \/ ~it.hasBinary
  \/ /\ it.hasBinary /\ ExpectedCsv(it)
     /\ (ParserOptionError(it.options) \/ OpenFails(it) \/ StreamFails(it)
         \/ ParserFails(it))
  \/ /\ it.hasBinary /\ ~ExpectedCsv(it)
     /\ \/ it.loadFails
        \/ Len(it.workbook.SheetNames) = 0
        \/ /\ it.options.sheetName # ""
           /\ ~InSeq(it.options.sheetName, it.workbook.SheetNames)

\* ------------------------------------------------------------------- C1
\* C1: in the read direction, for every item whose processing fails: under
\* continue-on-failure exactly one error record tagged with its index is
\* output and the loop goes on; otherwise execute aborts at that item with a
\* failure carrying its index, and nothing is returned.
C1_FailurePolicy ==
  operation = "fromFile" =>
    /\ pc # "hung"
    /\ \A k \in Indices :
         (FailsInput(items[k + 1]) /\ Processed(k)) =>
           /\ continueOnFail
           /\ Cardinality(ErrIdx(k)) = 1
           /\ \A j \in TaggedIdx(k) : j = Before(k) + 1
    /\ \A k \in Indices :
         (~FailsInput(items[k + 1]) /\ Processed(k)) =>
           (ErrIdx(k) = {} /\ Cardinality(RowIdx(k)) = Len(extracted[k + 1]))
    /\ pc = "aborted" =>
         /\ thrown.set /\ thrown.itemIndex = i /\ ~continueOnFail
         /\ FailsInput(items[i + 1])
         /\ TaggedIdx(i) = {}

\* ------------------------------------------------------------------- C2
\* C2: an item whose processing fails never has a row on the output; the
\* output items tagged with its index are none or exactly one error record.
C2_NoPartialCommit ==
  operation = "fromFile" =>
    \A k \in Indices :
      FailsInput(items[k + 1]) =>
        /\ RowIdx(k) = {}
        /\ Cardinality(ErrIdx(k)) <= 1

\* ------------------------------------------------------------------- C3
\* C3: a CSV conversion, once started, ends: execute never waits for ever,
\* no 'error' event is left without a listener, and a parser error on a
\* processed item is reported with the parser's message through the
\* failure policy.
C3_CsvConversionEnds ==
  operation = "fromFile" =>
    /\ pc # "hung"
    /\ unhandled = {}
    /\ \A k \in Indices :
         LET it == items[k + 1]
         IN (it.hasBinary /\ ExpectedCsv(it) /\ ~ParserOptionError(it.options)
               /\ ParserFails(it) /\ (Processed(k) \/ AbortedAt(k)))
            => FailureMsgs(k) = {ParserMessage(it)}

\* ------------------------------------------------------------------- C5
\* the fields of the line a record was made from
RECURSIVE NonEmptyEntries(_, _)
NonEmptyEntries(cols, line) ==
  IF cols = <<>> THEN <<>>
  ELSE (IF Head(line) # "" THEN << <<Head(cols), Head(line)>> >> ELSE <<>>)
       \o NonEmptyEntries(Tail(cols), Tail(line))

Distinct(line) == \A a, b \in 1..Len(line) : line[a] = line[b] => a = b

\* C5: for the rows of a processed well-formed CSV item: with headerRow on
\* (and distinct column names) and includeEmptyCells off a row holds the entries of its line whose value
\* is not the empty string; with headerRow off a row is the array of the
\* fields of its line, empty strings included, whatever includeEmptyCells is.
C5_EmptyCells ==
  \A k \in Indices :
    LET it == items[k + 1]
        first == it.options.fromLine
    IN (Processed(k) /\ route[k + 1] = "csv" /\ WellFormed(it.lines))
       => \A r \in 1..Len(extracted[k + 1]) :
            IF it.options.headerRow = {FALSE}
            THEN extracted[k + 1][r] = Arr(it.lines[first + r - 1])
            ELSE (~Truthy(it.options.includeEmptyCells)
                    /\ Distinct(it.lines[first])) =>
                   extracted[k + 1][r] =
                     Obj(NonEmptyEntries(it.lines[first], it.lines[first + r]))

====
